---------------------------- MODULE Spec2Model ----------------------------
(***************************************************************************)
(* Linear -> Notion synchronisation (src/sync-linear-to-notion.js).        *)
(*                                                                         *)
(* One invocation of the script is a "run".  A run pages through the       *)
(* tracker's changed issues, and for every issue performs upsert(): the    *)
(* label gate, the ensureSelectOption calls, the lookup by "Linear Issue   *)
(* ID", the create or patch, the audit comment and the "Last Sync"         *)
(* refresh.  Every network call is one action: the request, the response   *)
(* the remote service gives, and the local code that follows it.           *)
(*                                                                         *)
(* Text is a TLA+ string.  The string functions of the code (toLowerCase,  *)
(* trim, String) are tables over the texts that occur in the model.        *)
(***************************************************************************)
EXTENDS Integers, Sequences, FiniteSets, TLC

(***************************************************************************)
(* Bounds of the model.                                                    *)
(***************************************************************************)
\* number of invocations of the script
MaxRuns == 2
\* number of labels of a record given to mapExtras on its own
MaxLabels == 2
\* number of whole chunks in a text given to toRichTextArray on its own
MaxChunks == 2
\* number of issues the tracker holds for the lookback window
MaxFeed == 2
\* non-success responses (429 or an error status) the services give, per behaviour
MaxFaults == 1
\* page size the reader asks for (`first`, 50 in the code), scaled to the feed
PageSize == 1

(***************************************************************************)
(* JavaScript values: null, strings, numbers.                              *)
(***************************************************************************)
Null == [t |-> "null", v |-> ""]
Str(s) == [t |-> "str", v |-> s]
Num(n) == [t |-> "num", v |-> n]

\* String.prototype.toLowerCase on the texts of the model
toLowerCase(s) ==
    CASE s = "Customer - Hapag Lloyd" -> "customer - hapag lloyd"
      [] s = "In Progress"    -> "in progress"
      [] s = " In Progress "  -> " in progress "
      [] s = "Done"           -> "done"
      [] s = "Todo"           -> "todo"
      [] s = "Bug"            -> "bug"
      [] s = "Features"       -> "features"
      [] s = "Chore"          -> "chore"
      [] s = "Planning"       -> "planning"
      [] s = "Procurement"    -> "procurement"
      [] s = "Post-bunkering" -> "post-bunkering"
      [] s = "Lab"            -> "lab"
      [] s = "Approval"       -> "approval"
      [] s = "Very Low"       -> "very low"
      [] s = "Low"            -> "low"
      [] s = "Medium"         -> "medium"
      [] s = "High"           -> "high"
      [] s = "Urgent"         -> "urgent"
      [] s = "None"           -> "none"
      [] OTHER                -> s

\* String.prototype.trim on the texts of the model
trim(s) ==
    CASE s = " In Progress " -> "In Progress"
      [] s = " "             -> ""
      [] OTHER               -> s

\* String(n) for the numbers of the model
NumberToString(n) ==
    CASE n = 0 -> "0" [] n = 1 -> "1" [] n = 2 -> "2" [] n = 3 -> "3" [] n = 4 -> "4"
      [] n = 5 -> "5" [] n = 6 -> "6" [] n = 7 -> "7" [] n = 8 -> "8" [] n = 9 -> "9"

(***************************************************************************)
(* Environment (lines 6-12).                                               *)
(***************************************************************************)
REQUIRED_LABEL == "Customer - Hapag Lloyd"

(***************************************************************************)
(* Normalisation helpers and the field mapping.                            *)
(***************************************************************************)
\* normalizeOptionName: the display text of a value, or Null
normalizeOptionName(value) ==
    CASE value.t = "null" -> Null
      [] value.t = "str"  -> IF trim(value.v) # "" THEN Str(trim(value.v)) ELSE Null
      [] value.t = "num"  -> Str(NumberToString(value.v))
      [] OTHER            -> Null

PriorityMax == 5

PriorityText(p) ==
    CASE p = 5 -> "Very Low"
      [] p = 4 -> "Low"
      [] p = 3 -> "Medium"
      [] p = 2 -> "High"
      [] p = 1 -> "Urgent"
      [] p = 0 -> "None"

\* a priority mapper that writes the number as it is
mapPriorityToText_Digits(p) ==
    CASE p.t = "num" -> Str(NumberToString(p.v))
      [] p.t = "str" -> p
      [] OTHER       -> Null

\* mapPriorityToText
mapPriorityToText(p) ==
    CASE p.t = "null" -> Null
      [] p.t = "str"  -> IF trim(p.v) # "" THEN Str(trim(p.v)) ELSE Null
      [] p.t = "num"  -> IF p.v \in 0..PriorityMax THEN Str(PriorityText(p.v))
                         ELSE Str(NumberToString(p.v))
      [] OTHER        -> Null

MaxChunk == 1900

\* a chunker that keeps the first chunk only
toRichTextArray_FirstChunk(str) ==
    IF str = <<>> THEN <<>>
    ELSE <<SubSeq(str, 1, IF Len(str) < MaxChunk THEN Len(str) ELSE MaxChunk)>>

\* toRichTextArray: the text, a sequence of characters, in chunks of at most
\* MaxChunk characters
RECURSIVE toRichTextArray(_)
toRichTextArray(str) ==
    IF str = <<>> THEN <<>>
    ELSE IF Len(str) <= MaxChunk THEN <<str>>
    ELSE <<SubSeq(str, 1, MaxChunk)>> \o toRichTextArray(SubSeq(str, MaxChunk + 1, Len(str)))

MODULE_LABELS == <<"Planning", "Procurement", "Post-bunkering">>
SUBAREA_LABELS == <<"Planning", "Lab", "Approval">>
TYPE_LABELS == <<"Features", "Bug", "Chore">>

\* pickFirst: the first label of the record that equals, ignoring case, some
\* candidate; the empty text when there is none (the code's `|| ""`)
pickFirst(labels, cands) ==
    LET hit(l) == \E i \in DOMAIN cands : toLowerCase(cands[i]) = toLowerCase(l)
        found  == SelectSeq(labels, hit)
    IN  IF found = <<>> THEN "" ELSE Head(found)

\* mapExtras
mapExtras(labels, cycleName) ==
    [moduleVal  |-> pickFirst(labels, MODULE_LABELS),
     subareaVal |-> pickFirst(labels, SUBAREA_LABELS),
     typeVal    |-> IF pickFirst(labels, TYPE_LABELS) # ""
                    THEN pickFirst(labels, TYPE_LABELS)
                    ELSE IF \E i \in DOMAIN labels : labels[i] = "Features"
                         THEN "Features" ELSE "",
     cycleVal   |-> cycleName]

(***************************************************************************)
(* The upstream tracker: the issues a run can be served.                   *)
(***************************************************************************)
Issue(id, title, labels, priority, state) ==
    [identifier |-> id, title |-> title, url |-> "https://linear.app/" \o id,
     labels |-> labels, priority |-> priority, state |-> state,
     cycle |-> Null, dueDate |-> Null, description |-> Null]

\* the scenario record: required label, "Bug", priority 2, "In Progress"
IssueA == Issue("ENG-1", "first", <<"Customer - Hapag Lloyd", "Bug">>, Num(2),
                Str("In Progress"))
\* labels and state in lower case, a module label, no priority
IssueB == Issue("ENG-2", "second", <<"customer - hapag lloyd", "bug", "Planning">>, Null,
                Str("in progress"))
\* no required label
IssueC == Issue("ENG-3", "third", <<"Bug">>, Num(1), Str("Done"))
\* ENG-1 as it reads after a later upstream edit
IssueD == Issue("ENG-1", "first, edited", <<"Customer - Hapag Lloyd">>, Num(2), Str("Done"))

Issues == {IssueA, IssueB, IssueC, IssueD}

\* the sequences of at most n elements of S
RECURSIVE SeqsUpTo(_, _)
SeqsUpTo(S, n) ==
    IF n = 0 THEN {<<>>}
    ELSE LET shorter == SeqsUpTo(S, n - 1)
         IN  shorter \cup {Append(q, x) : q \in {t \in shorter : Len(t) = n - 1},
                                          x \in S}

\* a feed holds an issue once: the snapshots of one response differ
Feeds == {f \in SeqsUpTo(Issues, MaxFeed) : \A i, j \in DOMAIN f : f[i] = f[j] => i = j}

(***************************************************************************)
(* The destination database: its schema before the first run.              *)
(***************************************************************************)
Prop(type, options) == [type |-> type, options |-> options]

Schema0 ==
    [n \in {"Name", "Title", "Linear Issue ID", "Status", "Priority", "Module",
            "Type", "Cycle"} |->
        CASE n = "Name"     -> Prop("title", <<>>)
          [] n = "Status"   -> Prop("select", <<"Todo">>)
          [] n = "Priority" -> Prop("select", <<"High">>)
          [] n = "Type"     -> Prop("multi_select", <<"Bug">>)
          [] n = "Cycle"    -> Prop("select", <<>>)
          [] OTHER          -> Prop("rich_text", <<>>)]

NoDatabase == [set |-> FALSE, db |-> [n \in {} |-> Prop("", <<>>)]]
NoIssue == Issue("", "", <<>>, Null, Null)
NoProps == [n \in {} |-> 0]

SelectNames == <<"Status", "Priority", "Module", "Sub-Area", "Type", "Cycle">>

Runs == 1..MaxRuns

VARIABLES
    config,     \* whether LINEAR_API_KEY, NOTION_TOKEN and NOTION_DATABASE_ID are set
    calc,       \* a helper function of the script applied to an argument on its own
    tracker,    \* upstream: the issues changed since the lookback time, in order
    schema,     \* destination: property name -> [type, options]
    store,      \* destination: the pages, in order of creation
    now,        \* the clock nowISO() reads, advanced when a run starts
    faults,     \* non-success responses that ended a record or a run so far
    mutations,  \* every schema PATCH request sent, in order
    proc,       \* per run: the position and the locals of the script
    summary,    \* per run: the summary object
    hist        \* per run: what the run requested and yielded

vars == <<config, calc, tracker, schema, store, now, faults, mutations, proc, summary, hist>>

Proc0 ==
    [pc |-> "idle", after |-> 0, edges |-> <<>>, hasNextPage |-> FALSE, endCursor |-> 0,
     issue |-> NoIssue, selects |-> [i \in DOMAIN SelectNames |-> Null], step |-> 0,
     dbSchemaCache |-> NoDatabase, props |-> NoProps,
     existing |-> 0, pageId |-> 0, action |-> "none", exitCode |-> -1,
     resume |-> "none"]

Summary0 ==
    [processed |-> 0, created |-> 0, updated |-> 0, skippedNoLabel |-> 0,
     errors |-> 0, items |-> <<>>]

\* the calls of the record in hand, and the counts as they were before it
Record0 ==
    [calls |-> <<>>, throttled |-> 0, created |-> 0, updated |-> 0, errors |-> 0,
     pages |-> 0]

Hist0 ==
    [requests |-> <<>>, yielded |-> <<>>, schemaAtStart |-> Schema0, final |-> <<>>,
     emitted |-> FALSE, record |-> Record0]

\* no helper function is being applied
NoCalc == [f |-> "none", arg |-> <<>>, out |-> <<>>, done |-> FALSE]

Init ==
    /\ config \in BOOLEAN
    /\ calc = NoCalc
    /\ tracker \in Feeds
    /\ schema = Schema0
    /\ store = <<>>
    /\ now = 0
    /\ faults = 0
    /\ mutations = <<>>
    /\ proc = [r \in Runs |-> Proc0]
    /\ summary = [r \in Runs |-> Summary0]
    /\ hist = [r \in Runs |-> Hist0]

(***************************************************************************)
(* The remote services' answers.  "ok" is a 2xx response, "r429" a rate    *)
(* limit response and "err" any other non-success response.                *)
(***************************************************************************)
Responses == {"ok", "r429", "err"}

Status(resp) == CASE resp = "ok" -> 200 [] resp = "r429" -> 429 [] OTHER -> 500

\* the answers a service may give now: the responses other than success are
\* limited in number over the whole behaviour
Respond(resp) ==
    /\ resp # "ok" => faults < MaxFaults
    /\ faults' = IF resp # "ok" THEN faults + 1 ELSE faults

\* the tracker's answer to a page request: the issues after the cursor
PageAfter(after, first) ==
    LET rest  == SubSeq(tracker, after + 1, Len(tracker))
        count == IF Len(rest) < first THEN Len(rest) ELSE first
    IN  [edges |-> SubSeq(rest, 1, count),
         hasNextPage |-> Len(rest) > first,
         endCursor |-> after + count]

\* the destination's answer to the query by "Linear Issue ID"
QueryResults(identifier) ==
    LET match(pg) == pg.props["Linear Issue ID"] = identifier
    IN  SelectSeq(store, match)

\* the destination's effect of POST /v1/pages
CreatePage(pages, props) ==
    Append(pages, [id |-> Len(pages) + 1, props |-> props, notes |-> 0])

\* the destination's effect of PATCH /v1/pages/<id>: the keys sent are set
PatchPage(pages, id, props) ==
    [i \in DOMAIN pages |->
        IF pages[i].id = id THEN [pages[i] EXCEPT !.props = props @@ pages[i].props]
        ELSE pages[i]]

\* the destination's effect of PATCH /v1/blocks/<id>/children
AppendBlocks(pages, id) ==
    [i \in DOMAIN pages |->
        IF pages[i].id = id THEN [pages[i] EXCEPT !.notes = @ + 1] ELSE pages[i]]

(***************************************************************************)
(* Local code of the script.                                               *)
(***************************************************************************)
\* upsert, line 283: the label names of the record, empty names dropped
LabelNames(issue) ==
    LET named(n) == n # ""
    IN  SelectSeq(issue.labels, named)

\* a gate that only tests that the record has a label
hasRequired_AnyLabel(labels) == labels # <<>>

\* upsert, line 286
hasRequired(labels) ==
    \E i \in DOMAIN labels : toLowerCase(labels[i]) = toLowerCase(REQUIRED_LABEL)

\* upsert, lines 294-303: the normalised value of each select, in the order
\* in which ensureSelectOption is called for them
SelectValues(issue) ==
    LET cycleName == IF issue.cycle.t = "str" THEN issue.cycle.v ELSE ""
        extras    == mapExtras(LabelNames(issue), cycleName)
    IN  << normalizeOptionName(issue.state),
           normalizeOptionName(mapPriorityToText(issue.priority)),
           normalizeOptionName(Str(extras.moduleVal)),
           normalizeOptionName(Str(extras.subareaVal)),
           normalizeOptionName(Str(extras.typeVal)),
           normalizeOptionName(Str(extras.cycleVal)) >>

\* the same for each issue of the model, computed once
Selects == [x \in Issues |-> SelectValues(x)]

\* an existence test that compares the names as they are written
exists_SameCase(existing, optionName) ==
    \E i \in DOMAIN existing : existing[i] = optionName

\* ensureSelectOption, lines 174-178
exists(existing, optionName) ==
    \E i \in DOMAIN existing : toLowerCase(existing[i]) = toLowerCase(optionName)

\* an option list that holds the new option alone
nextOptions_OnlyNew(existing, optionName) == <<optionName>>

\* ensureSelectOption, line 181
nextOptions(existing, optionName) == Append(existing, optionName)

\* an ensureSelectOption that does not look at the kind of the property
NeedsOption_AnyKind(db, propertyName, rawOption) ==
    /\ normalizeOptionName(rawOption) # Null
    /\ propertyName \in DOMAIN db
    /\ ~exists(db[propertyName].options, normalizeOptionName(rawOption).v)

\* ensureSelectOption, lines 164-179: whether a schema PATCH is to be sent
NeedsOption(db, propertyName, rawOption) ==
    /\ normalizeOptionName(rawOption) # Null
    /\ propertyName \in DOMAIN db
    /\ db[propertyName].type \in {"select", "multi_select"}
    /\ ~exists(db[propertyName].options, normalizeOptionName(rawOption).v)

\* getTitlePropertyName, lines 156-159
TitleProperties(db) == {n \in DOMAIN db : db[n].type = "title"}

\* upsert, lines 316-339
BuildProps(issue, vals, titlePropName, db, t) ==
    LET chosen  == {i \in DOMAIN SelectNames : vals[i] # Null}
        selects == [n \in {SelectNames[i] : i \in chosen} |->
                       vals[CHOOSE i \in chosen : SelectNames[i] = n].v]
        due     == IF issue.dueDate # Null THEN "Due Date" :> issue.dueDate.v ELSE NoProps
        text    == IF issue.description.t = "str" THEN issue.description.v ELSE <<>>
        title   == IF "Title" \in DOMAIN db /\ db["Title"].type = "rich_text"
                   THEN "Title" :> issue.title ELSE NoProps
    IN  title @@ (titlePropName :> issue.title)
              @@ ("Linear Issue ID" :> issue.identifier)
              @@ ("Linear URL" :> issue.url)
              @@ selects @@ due
              @@ ("Last Sync" :> t)
              @@ ("Description" :> toRichTextArray(text))

\* a lookup whose filter matches no page
findPageByIssueId_NoMatch(identifier) == 0

\* findPageByIssueId, lines 214-215: the id of the first result, 0 for none
findPageByIssueId(identifier) ==
    IF QueryResults(identifier) = <<>> THEN 0 ELSE Head(QueryResults(identifier)).id

\* a write step that patches whatever the lookup returned
WriteOp_AlwaysPatch(existing) == "patch"

\* a write step that ignores the lookup
WriteOp_AlwaysCreate(existing) == "create"

\* upsert, lines 345-351: patch the page found, or create
WriteOp(existing) == IF existing # 0 THEN "patch" ELSE "create"

\* a write that hands every response to its caller
notionWrite_Unchecked(resp) == "return"

\* notionWrite, lines 219-236: what the caller sees of a response
notionWrite(resp) ==
    CASE resp = "r429" -> "retry"
      [] resp = "ok"   -> "return"
      [] OTHER         -> "throw"

\* upsert, lines 306-311: the ensureSelectOption calls from p.step on that end
\* without a network call are run; the script stops at the first call that
\* needs the schema fetched or an option added, or goes on to line 314
Settle(p) ==
    LET waits == {i \in p.step..Len(SelectNames) :
                     /\ p.selects[i] # Null
                     /\ \/ ~p.dbSchemaCache.set
                        \/ NeedsOption(p.dbSchemaCache.db, SelectNames[i], p.selects[i])}
    IN  IF waits = {} THEN [p EXCEPT !.pc = "title", !.step = Len(SelectNames) + 1]
        ELSE [p EXCEPT !.pc = "ensure", !.step = CHOOSE i \in waits : \A j \in waits : i <= j]

\* an ensureSelectOption that fetches again without dropping the cache
AfterSchemaChange_NoInvalidate(p) == [p EXCEPT !.pc = "refresh"]

\* an ensureSelectOption that keeps the cached schema after its PATCH
AfterSchemaChange_KeepCache(p) == Settle([p EXCEPT !.step = @ + 1])

\* ensureSelectOption, lines 197-198, after a schema PATCH that succeeded: the
\* cache is dropped and the schema is fetched again
AfterSchemaChange(p) == [p EXCEPT !.pc = "refresh", !.dbSchemaCache = NoDatabase]

Call(r, op, resp) ==
    hist' = [hist EXCEPT
        ![r].record.calls = Append(@, [op |-> op, status |-> Status(resp)]),
        ![r].record.throttled = IF resp = "r429" THEN @ + 1 ELSE @]

\* a catch that logs the failure without counting it
Caught_LogOnly(r) ==
    summary' = [summary EXCEPT
        ![r].items = Append(@, [tag |-> "Error", id |-> proc[r].issue.identifier])]

\* main, lines 391-395: the catch around upsert
Caught(r) ==
    summary' = [summary EXCEPT
        ![r].errors = @ + 1,
        ![r].items = Append(@, [tag |-> "Error", id |-> proc[r].issue.identifier])]

\* a driver that stops at the first record that throws
AfterCatch_Abort == "fatal"

\* a failure that upsert swallows, going on to the "Last Sync" refresh
AfterCatch_Stamp == "stamp"

\* where the driver continues after the catch (line 396)
AfterCatch == "iter"

\* an ensureSelectOption that drops the cache before it looks at the response
AfterSchemaFailure_Invalidate(p) == [p EXCEPT !.pc = AfterCatch, !.dbSchemaCache = NoDatabase]

\* ensureSelectOption, lines 193-196, after a schema PATCH that failed: the
\* error is thrown through upsert to main's catch; line 197 is not reached
AfterSchemaFailure(p) == [p EXCEPT !.pc = AfterCatch]

(***************************************************************************)
(* The run: start, the feed reader and the driver's loop.                  *)
(***************************************************************************)
\* lines 59 and 434: process.exit(1)
Exit1 == [Proc0 EXCEPT !.pc = "fatal", !.exitCode = 1]

\* a reader that ends the feed at a failed page request
ThrowFromReader_Swallowed(p) == [Proc0 EXCEPT !.pc = "iter"]

\* lines 124-127 and 431-435: the reader throws, main's outer catch logs the
\* failure and exits
ThrowFromReader(p) == Exit1

\* an exit status that tells whether a record failed
ExitCode_FailOnErrors(s) == IF s.errors > 0 THEN 1 ELSE 0

\* lines 427-430: the exit on errored records is commented out; main returns
ExitCode(s) == 0

\* lines 57-60 and 376-380: the process starts with an empty cache and
\* summary, checks its configuration and enters main
Begin(r) ==
    /\ proc[r].pc = "idle"
    /\ now' = now + 1
    /\ proc' = [proc EXCEPT ![r] = IF config THEN [Proc0 EXCEPT !.pc = "fetch"] ELSE Exit1]
    /\ hist' = [hist EXCEPT ![r].schemaAtStart = schema]
    /\ UNCHANGED <<config, calc, tracker, schema, store, faults, mutations, summary>>

\* an invocation after the one before it has ended: runs do not overlap
Start(r) ==
    /\ r > 1 => proc[r - 1].pc \in {"done", "fatal"}
    /\ Begin(r)

\* fetchUpdatedIssuesSince, lines 118-130: one page request; a non-success
\* response is thrown to main's outer catch (lines 431-435), exit status 1
FetchPage(r) ==
    /\ proc[r].pc = "fetch"
    /\ \E resp \in {"ok", "err"} :
        /\ Respond(resp)
        /\ IF resp = "ok"
           THEN LET page == PageAfter(proc[r].after, PageSize)
                IN  /\ proc' = [proc EXCEPT ![r].pc = "iter",
                                            ![r].edges = page.edges,
                                            ![r].hasNextPage = page.hasNextPage,
                                            ![r].endCursor = page.endCursor]
                    /\ hist' = [hist EXCEPT
                           ![r].requests = Append(@, [after |-> proc[r].after, status |-> 200]),
                           ![r].record = Record0]
           ELSE /\ proc' = [proc EXCEPT ![r] = ThrowFromReader(proc[r])]
                /\ hist' = [hist EXCEPT
                       ![r].requests = Append(@, [after |-> proc[r].after, status |-> 500]),
                       ![r].record = Record0]
    /\ UNCHANGED <<config, calc, tracker, schema, store, now, mutations, summary>>

\* lines 131 and 380-381: the next record of the page is yielded and counted
NextIssue(r) ==
    /\ proc[r].pc = "iter"
    /\ proc[r].edges # <<>>
    /\ proc' = [proc EXCEPT ![r].pc = "upsert",
                            ![r].issue = Head(proc[r].edges),
                            ![r].edges = Tail(proc[r].edges),
                            ![r].selects = Proc0.selects, ![r].step = 0,
                            ![r].props = NoProps,
                            ![r].existing = 0, ![r].pageId = 0, ![r].action = "none"]
    /\ summary' = [summary EXCEPT ![r].processed = @ + 1]
    /\ hist' = [hist EXCEPT ![r].yielded = Append(@, Head(proc[r].edges).identifier),
                            ![r].record = [calls |-> <<>>, throttled |-> 0,
                                           created |-> summary[r].created,
                                           updated |-> summary[r].updated,
                                           errors |-> summary[r].errors,
                                           pages |-> Len(store)]]
    /\ UNCHANGED <<config, calc, tracker, schema, store, now, faults, mutations>>

\* a reader that goes on to the next page while records of this one wait
PageExhausted_Eager(p) == TRUE

\* line 131: the loop over the page's edges has yielded every record
PageExhausted(p) == p.edges = <<>>

\* a reader that asks again with the cursor it sent before
NextCursor_Same(p) == p.after

\* line 134: the cursor of the next page request
NextCursor(p) == p.endCursor

\* lines 133-134: the page is exhausted and the tracker signalled another
NextPage(r) ==
    /\ proc[r].pc = "iter"
    /\ PageExhausted(proc[r])
    /\ proc[r].hasNextPage
    /\ proc' = [proc EXCEPT ![r].pc = "fetch", ![r].after = NextCursor(proc[r])]
    /\ UNCHANGED <<config, calc, tracker, schema, store, now, faults, mutations, summary, hist>>

\* lines 134 and 399-426: no further page; the summary is emitted, exit status 0
Finish(r) ==
    /\ proc[r].pc = "iter"
    /\ PageExhausted(proc[r])
    /\ ~proc[r].hasNextPage
    /\ proc' = [proc EXCEPT ![r] = [Proc0 EXCEPT !.pc = "done",
                                                 !.exitCode = ExitCode(summary[r])]]
    /\ hist' = [hist EXCEPT ![r].record = Record0, ![r].final = store,
                            ![r].emitted = TRUE]
    /\ UNCHANGED <<config, calc, tracker, schema, store, now, faults, mutations, summary>>

(***************************************************************************)
(* upsert(issue).                                                          *)
(***************************************************************************)
\* lines 282-303: the label gate, and the values of the selects
LabelGate(r) ==
    LET p == proc[r]
    IN  /\ p.pc = "upsert"
        /\ IF hasRequired(LabelNames(p.issue))
           THEN /\ proc' = [proc EXCEPT ![r] =
                       Settle([p EXCEPT !.selects = Selects[p.issue], !.step = 1])]
                /\ UNCHANGED summary
           ELSE /\ proc' = [proc EXCEPT ![r].pc = "iter", ![r].action = "skipped"]
                /\ summary' = [summary EXCEPT
                       ![r].skippedNoLabel = @ + 1,
                       ![r].items = Append(@, [tag |-> "Skipped", id |-> p.issue.identifier])]
        /\ UNCHANGED <<config, calc, tracker, schema, store, now, faults, mutations, hist>>

\* getDatabase, lines 141-152, with the cache empty: the schema is fetched.
\* Called by ensureSelectOption (lines 167 and 198) and getTitlePropertyName.
GetDatabase(r) ==
    LET p == proc[r]
    IN  /\ p.pc \in {"ensure", "refresh", "title"}
        /\ ~p.dbSchemaCache.set
        /\ \E resp \in Responses :
            /\ Respond(resp)
            /\ Call(r, "getDatabase", resp)
            /\ IF resp = "ok"
               THEN /\ proc' = [proc EXCEPT ![r] =
                           LET q == [p EXCEPT !.dbSchemaCache = [set |-> TRUE, db |-> schema]]
                           IN  CASE p.pc = "ensure"  -> Settle(q)
                                 [] p.pc = "refresh" -> Settle([q EXCEPT !.step = @ + 1])
                                 [] OTHER            -> q]
                    /\ UNCHANGED summary
               ELSE /\ proc' = [proc EXCEPT ![r].pc = AfterCatch]
                    /\ Caught(r)
        /\ UNCHANGED <<config, calc, tracker, schema, store, now, mutations>>

\* ensureSelectOption, lines 174-197: the option is missing from the cached
\* schema and the schema PATCH is sent
EnsureSelectOption(r) ==
    LET p    == proc[r]
        name == SelectNames[p.step]
        opt  == normalizeOptionName(p.selects[p.step]).v
        sent == nextOptions(p.dbSchemaCache.db[name].options, opt)
    IN  /\ p.pc = "ensure"
        /\ p.dbSchemaCache.set
        /\ \E resp \in Responses :
            /\ Respond(resp)
            /\ Call(r, "updateDatabase", resp)
            /\ mutations' = Append(mutations,
                   [run |-> r, property |-> name, option |-> opt, sent |-> sent,
                    held |-> schema[name].options, status |-> Status(resp)])
            /\ IF resp = "ok"
               THEN /\ schema' = [schema EXCEPT ![name].options = sent]
                    /\ proc' = [proc EXCEPT ![r] = AfterSchemaChange(p)]
                    /\ UNCHANGED summary
               ELSE /\ proc' = [proc EXCEPT ![r] = AfterSchemaFailure(p)]
                    /\ Caught(r)
                    /\ UNCHANGED schema
        /\ UNCHANGED <<config, calc, tracker, store, now>>

\* lines 314-339: the title property is looked up and the properties are built
PrepareProps(r) ==
    LET p  == proc[r]
        db == p.dbSchemaCache.db
    IN  /\ p.pc = "title"
        /\ p.dbSchemaCache.set
        /\ IF TitleProperties(db) = {}
           THEN /\ proc' = [proc EXCEPT ![r].pc = AfterCatch]
                /\ Caught(r)
           ELSE /\ proc' = [proc EXCEPT ![r].pc = "lookup",
                       ![r].props = BuildProps(p.issue, p.selects,
                                               CHOOSE n \in TitleProperties(db) : TRUE, db, now)]
                /\ UNCHANGED summary
        /\ UNCHANGED <<config, calc, tracker, schema, store, now, faults, mutations, hist>>

\* line 342 and findPageByIssueId, lines 201-216
FindPage(r) ==
    /\ proc[r].pc = "lookup"
    /\ \E resp \in Responses :
        /\ Respond(resp)
        /\ Call(r, "query", resp)
        /\ IF resp = "ok"
           THEN /\ proc' = [proc EXCEPT ![r].pc = "write",
                                ![r].existing = findPageByIssueId(proc[r].issue.identifier)]
                /\ UNCHANGED summary
           ELSE /\ proc' = [proc EXCEPT ![r].pc = AfterCatch]
                /\ Caught(r)
    /\ UNCHANGED <<config, calc, tracker, schema, store, now, mutations>>

\* lines 345-360: the patch of the page found, or the create
WritePage(r) ==
    LET p  == proc[r]
        op == WriteOp(p.existing)
    IN  /\ p.pc = "write"
        /\ \E resp \in Responses :
            /\ Respond(resp)
            /\ Call(r, op, resp)
            /\ store' = IF resp # "ok" THEN store
                        ELSE IF op = "patch" THEN PatchPage(store, p.existing, p.props)
                        ELSE CreatePage(store, p.props)
            /\ CASE notionWrite(resp) = "retry" -> UNCHANGED <<proc, summary>>
                 [] notionWrite(resp) = "throw" ->
                        /\ proc' = [proc EXCEPT ![r].pc = AfterCatch]
                        /\ Caught(r)
                 [] OTHER ->
                        /\ proc' = [proc EXCEPT ![r].pc = "comment",
                               ![r].pageId = IF op = "patch" THEN p.existing
                                             ELSE IF resp = "ok" THEN Len(store) + 1 ELSE 0,
                               ![r].action = IF op = "patch" THEN "updated" ELSE "created"]
                        /\ UNCHANGED summary
        /\ UNCHANGED <<config, calc, tracker, schema, now, mutations>>

\* line 363 and appendSyncComment, lines 240-263
AppendSyncComment(r) ==
    LET p == proc[r]
    IN  /\ p.pc = "comment"
        /\ \E resp \in Responses :
            /\ Respond(resp)
            /\ Call(r, "comment", resp)
            /\ store' = IF resp = "ok" THEN AppendBlocks(store, p.pageId) ELSE store
            /\ CASE notionWrite(resp) = "retry" -> UNCHANGED <<proc, summary>>
                 [] notionWrite(resp) = "throw" ->
                        /\ proc' = [proc EXCEPT ![r].pc = AfterCatch]
                        /\ Caught(r)
                 [] OTHER ->
                        /\ proc' = [proc EXCEPT ![r].pc = "stamp"]
                        /\ UNCHANGED summary
        /\ UNCHANGED <<config, calc, tracker, schema, now, mutations>>

\* lines 366-372 and 384-390: "Last Sync" is refreshed, upsert returns and the
\* driver counts the record
RefreshLastSync(r) ==
    LET p == proc[r]
    IN  /\ p.pc = "stamp"
        /\ \E resp \in Responses :
            /\ Respond(resp)
            /\ Call(r, "stamp", resp)
            /\ store' = IF resp = "ok" THEN PatchPage(store, p.pageId, "Last Sync" :> now)
                        ELSE store
            /\ CASE notionWrite(resp) = "retry" -> UNCHANGED <<proc, summary>>
                 [] notionWrite(resp) = "throw" ->
                        /\ proc' = [proc EXCEPT ![r].pc = AfterCatch]
                        /\ Caught(r)
                 [] OTHER ->
                        /\ proc' = [proc EXCEPT ![r].pc = "iter"]
                        /\ summary' = [summary EXCEPT
                               ![r].created = IF p.action = "created" THEN @ + 1 ELSE @,
                               ![r].updated = IF p.action = "updated" THEN @ + 1 ELSE @,
                               ![r].items = Append(@,
                                   [tag |-> IF p.action = "created" THEN "Created" ELSE "Updated",
                                    id |-> p.issue.identifier])]
        /\ UNCHANGED <<config, calc, tracker, schema, now, mutations>>

Next ==
    \E r \in Runs :
        \/ Start(r)
        \/ FetchPage(r)
        \/ NextIssue(r)
        \/ NextPage(r)
        \/ Finish(r)
        \/ LabelGate(r)
        \/ GetDatabase(r)
        \/ EnsureSelectOption(r)
        \/ PrepareProps(r)
        \/ FindPage(r)
        \/ WritePage(r)
        \/ AppendSyncComment(r)
        \/ RefreshLastSync(r)

Spec == Init /\ [][Next]_vars

(***************************************************************************)
(* Invocations that overlap: the scheduler starts a run while another is   *)
(* still running.  Every call is answered with success.                    *)
(***************************************************************************)
InitOverlap ==
    /\ config = TRUE
    /\ calc = NoCalc
    /\ tracker \in Feeds
    /\ schema = Schema0
    /\ store = <<>>
    /\ now = 0
    /\ faults = MaxFaults
    /\ mutations = <<>>
    /\ proc = [r \in Runs |-> Proc0]
    /\ summary = [r \in Runs |-> Summary0]
    /\ hist = [r \in Runs |-> Hist0]

NextOverlap ==
    \E r \in Runs :
        \/ Begin(r)
        \/ FetchPage(r)
        \/ NextIssue(r)
        \/ NextPage(r)
        \/ Finish(r)
        \/ LabelGate(r)
        \/ GetDatabase(r)
        \/ EnsureSelectOption(r)
        \/ PrepareProps(r)
        \/ FindPage(r)
        \/ WritePage(r)
        \/ AppendSyncComment(r)
        \/ RefreshLastSync(r)

SpecOverlap == InitOverlap /\ [][NextOverlap]_vars

(***************************************************************************)
(* One invocation whose writes may be answered with a rate limit response  *)
(* any number of times.  The other responses that are not a success stay   *)
(* limited in number.                                                      *)
(***************************************************************************)
InitRetry ==
    /\ config = TRUE
    /\ calc = NoCalc
    /\ tracker \in Feeds
    /\ schema = Schema0
    /\ store = <<>>
    /\ now = 0
    /\ faults = 0
    /\ mutations = <<>>
    /\ proc = [r \in Runs |-> Proc0]
    /\ summary = [r \in Runs |-> Summary0]
    /\ hist = [r \in Runs |-> Hist0]

\* a write that drops the record at a rate limit response
Backoff_Drop(p) == [p EXCEPT !.pc = "iter"]

\* notionWrite, line 226: the write in hand waits in sleep(500)
Backoff(p) == [p EXCEPT !.resume = p.pc, !.pc = "backoff"]

\* notionWrite, lines 220-226: a write of upsert is answered 429; the store
\* does nothing.  The log of the record's calls keeps one entry for a write
\* that is answered 429 again and again.
RateLimited(r) ==
    LET p     == proc[r]
        op    == CASE p.pc = "write"   -> WriteOp(p.existing)
                   [] p.pc = "comment" -> "comment"
                   [] OTHER            -> "stamp"
        calls == hist[r].record.calls
        entry == [op |-> op, status |-> Status("r429")]
    IN  /\ p.pc \in {"write", "comment", "stamp"}
        /\ notionWrite("r429") = "retry"
        /\ proc' = [proc EXCEPT ![r] = Backoff(p)]
        /\ hist' = IF calls # <<>> /\ calls[Len(calls)] = entry THEN hist
                   ELSE [hist EXCEPT ![r].record.calls = Append(@, entry),
                                     ![r].record.throttled = @ + 1]
        /\ UNCHANGED <<config, calc, tracker, schema, store, now, faults, mutations, summary>>

\* notionWrite, line 227: the sleep is over and doFetch sends the request again
Resend(r) ==
    /\ proc[r].pc = "backoff"
    /\ proc' = [proc EXCEPT ![r].pc = proc[r].resume, ![r].resume = "none"]
    /\ UNCHANGED <<config, calc, tracker, schema, store, now, faults, mutations, summary, hist>>

NextRetry ==
    \E r \in {q \in Runs : \A o \in Runs : q <= o} :
        \/ Start(r)
        \/ FetchPage(r)
        \/ NextIssue(r)
        \/ NextPage(r)
        \/ Finish(r)
        \/ LabelGate(r)
        \/ GetDatabase(r)
        \/ EnsureSelectOption(r)
        \/ PrepareProps(r)
        \/ FindPage(r)
        \/ WritePage(r)
        \/ AppendSyncComment(r)
        \/ RefreshLastSync(r)
        \/ RateLimited(r)
        \/ Resend(r)

\* The process keeps running while it has something to do: the event loop runs
\* the continuation of every await, each remote call is answered and the timers
\* of sleep fire.  Every write that is sent again and again is at some time
\* answered with a response other than 429.
\* a write of upsert is answered with a response that is taken in one step
Answered(r) == WritePage(r) \/ AppendSyncComment(r) \/ RefreshLastSync(r)

FairRetry ==
    /\ WF_vars(NextRetry)
    /\ \A r \in {q \in Runs : \A o \in Runs : q <= o} : SF_vars(Answered(r))

SpecRetry == InitRetry /\ [][NextRetry]_vars /\ FairRetry

(***************************************************************************)
(* The helper functions on their own: one is applied to an argument.       *)
(***************************************************************************)
\* label names given to mapExtras
LabelTexts == {"Planning", "Procurement", "Lab", "Bug", "bug", "Features", "Chore"}

\* a text of n characters; the character at a position depends on the position
Text(n) == [i \in 1..n |-> i % 10]

\* lengths of the texts given to toRichTextArray, around the multiples of MaxChunk
TextLengths == {k * MaxChunk + d : k \in 0..MaxChunks, d \in {0, 1, 1200, 1899}}

Applications ==
    {[f |-> "mapExtras", arg |-> l, out |-> <<>>, done |-> FALSE] :
        l \in SeqsUpTo(LabelTexts, MaxLabels)}
    \cup {[f |-> "toRichTextArray", arg |-> Text(n), out |-> <<>>, done |-> FALSE] :
        n \in TextLengths}

InitHelpers ==
    /\ calc \in Applications
    /\ config = TRUE
    /\ tracker = <<>>
    /\ schema = Schema0
    /\ store = <<>>
    /\ now = 0
    /\ faults = 0
    /\ mutations = <<>>
    /\ proc = [r \in Runs |-> Proc0]
    /\ summary = [r \in Runs |-> Summary0]
    /\ hist = [r \in Runs |-> Hist0]

\* mapExtras(labels, "")
ApplyMapExtras ==
    /\ calc.f = "mapExtras" /\ ~calc.done
    /\ calc' = [calc EXCEPT !.out = mapExtras(calc.arg, ""), !.done = TRUE]
    /\ UNCHANGED <<config, tracker, schema, store, now, faults, mutations, proc, summary, hist>>

\* toRichTextArray(str)
ApplyToRichTextArray ==
    /\ calc.f = "toRichTextArray" /\ ~calc.done
    /\ calc' = [calc EXCEPT !.out = toRichTextArray(calc.arg), !.done = TRUE]
    /\ UNCHANGED <<config, tracker, schema, store, now, faults, mutations, proc, summary, hist>>

NextHelpers == ApplyMapExtras \/ ApplyToRichTextArray

SpecHelpers == InitHelpers /\ [][NextHelpers]_vars

(***************************************************************************)
(* Properties.                                                             *)
(***************************************************************************)
Last(q) == q[Len(q)]

IsPrefix(a, b) == Len(a) <= Len(b) /\ \A i \in DOMAIN a : a[i] = b[i]

\* the field values of the pages, and the same without the "Last Sync" date
Fields(pages) == [i \in DOMAIN pages |-> pages[i].props]
FieldsButLastSync(pages) ==
    [i \in DOMAIN pages |->
        [n \in DOMAIN pages[i].props \ {"Last Sync"} |-> pages[i].props[n]]]

\* a run that ended with its summary and no errored record, after such a run
CleanRerun(r) ==
    /\ r > 1
    /\ proc[r].pc = "done" /\ summary[r].errors = 0
    /\ proc[r - 1].pc = "done" /\ summary[r - 1].errors = 0

\* C1 as stated: a second run over the same feed creates no record, counts
\* every record that passed the label gate as updated and leaves every field
\* value of every page as the first run left it.
C1_SameFieldValues ==
    \A r \in Runs : CleanRerun(r) =>
        /\ summary[r].created = 0
        /\ summary[r].updated = summary[r - 1].created + summary[r - 1].updated
        /\ Fields(hist[r].final) = Fields(hist[r - 1].final)

\* C1 as amended: a second run over the same feed creates no record, counts
\* every record that passed the label gate as updated and leaves every field
\* value but the "Last Sync" date as the first run left it; "Last Sync" holds
\* the time of the second run.
C1_Idempotent ==
    \A r \in Runs : CleanRerun(r) =>
        /\ summary[r].created = 0
        /\ summary[r].updated = summary[r - 1].created + summary[r - 1].updated
        /\ Len(hist[r].final) = Len(hist[r - 1].final)
        /\ FieldsButLastSync(hist[r].final) = FieldsButLastSync(hist[r - 1].final)
        /\ \A i \in DOMAIN hist[r].final :
              hist[r].final[i].props["Last Sync"] >= hist[r - 1].final[i].props["Last Sync"]

\* a second clean run has patched a page that the first run wrote twice, from
\* two snapshots of the same issue
C1_Witness ==
    \E r \in Runs :
        /\ CleanRerun(r)
        /\ summary[r].updated = 2
        /\ Len(hist[r].final) = 1
        /\ hist[r].final[1].props["Last Sync"] > hist[r - 1].final[1].props["Last Sync"]

\* C2: the store never holds two pages with the same "Linear Issue ID",
\* whatever calls failed and however often an issue is visited.
C2_NoDuplicates ==
    \A i, j \in DOMAIN store :
        store[i].props["Linear Issue ID"] = store[j].props["Linear Issue ID"] => i = j

\* a later run patched a page although an earlier run had a record errored,
\* and the store holds pages of two issues
C2_Witness ==
    \E r \in Runs :
        /\ r > 1
        /\ summary[r - 1].errors > 0
        /\ summary[r].updated > 0
        /\ Len(store) = 2

\* the record has no label that equals the required one ignoring case
LacksRequiredLabel(issue) ==
    \A i \in DOMAIN issue.labels : toLowerCase(issue.labels[i]) # "customer - hapag lloyd"

\* C3: the upsert of a record without the required label makes no call to the
\* destination and changes nothing there; the record is counted as skipped,
\* once, and in no other counter.
C3_LabelGate ==
    [][\A r \in Runs :
         (proc[r].pc = "upsert" /\ proc'[r] # proc[r] /\ LacksRequiredLabel(proc[r].issue)) =>
            /\ proc'[r].pc = "iter"
            /\ summary'[r] = [summary[r] EXCEPT
                   !.skippedNoLabel = @ + 1,
                   !.items = Append(@, [tag |-> "Skipped", id |-> proc[r].issue.identifier])]
            /\ hist'[r].record.calls = <<>>
            /\ UNCHANGED <<schema, store, mutations, faults>>]_vars

\* a record was skipped at the gate while the store already held a page
C3_Witness ==
    \E r \in Runs :
        /\ proc[r].pc = "iter"
        /\ proc[r].action = "skipped"
        /\ LacksRequiredLabel(proc[r].issue)
        /\ summary[r].skippedNoLabel = 1
        /\ hist[r].record.calls = <<>>
        /\ store # <<>>

\* for each issue, the value it carries for each select, case folded; "" when
\* it carries none or lacks the required label
Carried ==
    [x \in Issues |->
        [k \in DOMAIN SelectNames |->
            IF LacksRequiredLabel(x) \/ SelectValues(x)[k] = Null THEN ""
            ELSE toLowerCase(SelectValues(x)[k].v)]]

\* the values, case folded, that the gated records of the feed carry for the
\* k-th select and that the schema did not hold, as a select or multi-select
\* option and ignoring case, when run r started
NewValues(r, k) ==
    LET at == hist[r].schemaAtStart
        n  == SelectNames[k]
    IN  IF n \notin DOMAIN at \/ at[n].type \notin {"select", "multi_select"} THEN {}
        ELSE {f \in {Carried[tracker[i]][k] : i \in DOMAIN tracker} \ {""} :
                 \A o \in DOMAIN at[n].options : toLowerCase(at[n].options[o]) # f}

\* the append mutations run r sent for a value of a property
Sent(r, n, f) ==
    {i \in DOMAIN mutations :
        /\ mutations[i].run = r
        /\ mutations[i].property = n
        /\ toLowerCase(mutations[i].option) = f}

\* C4 as stated: a run that has ended sent exactly one append mutation for
\* every new value of a property, however many records carry the value.
C4_ExactlyOneSent ==
    \A r \in Runs : proc[r].pc = "done" =>
        \A k \in DOMAIN SelectNames : \A f \in NewValues(r, k) :
            Cardinality(Sent(r, SelectNames[k], f)) = 1

\* C4 as amended: a run sends append mutations only for new values, at most one
\* of them succeeds per property and value (ignoring case), and a run that
\* ended with no errored record sent exactly one per new value, however many
\* records carry the value.
C4_OneAppendPerValue ==
    /\ \A i \in DOMAIN mutations :
          \E k \in DOMAIN SelectNames :
              /\ SelectNames[k] = mutations[i].property
              /\ toLowerCase(mutations[i].option) \in NewValues(mutations[i].run, k)
    /\ \A i, j \in DOMAIN mutations :
          ( /\ mutations[i].run = mutations[j].run
            /\ mutations[i].property = mutations[j].property
            /\ toLowerCase(mutations[i].option) = toLowerCase(mutations[j].option)
            /\ mutations[i].status = 200 /\ mutations[j].status = 200 ) => i = j
    /\ \A r \in Runs : (proc[r].pc = "done" /\ summary[r].errors = 0) =>
          \A k \in DOMAIN SelectNames : \A f \in NewValues(r, k) :
              Cardinality(Sent(r, SelectNames[k], f)) = 1

\* a run ended without error over two records that carry the same new status,
\* written in two ways, and sent one mutation for it
C4_Witness ==
    /\ tracker = <<IssueA, IssueB>>
    /\ proc[1].pc = "done" /\ summary[1].errors = 0
    /\ summary[1].created = 2
    /\ NewValues(1, 1) = {"in progress"}
    /\ Cardinality(Sent(1, "Status", "in progress")) = 1

\* C5: every option list sent is the list the destination held with the new
\* option appended at the end, and the options a property had when a run started
\* are, in their order and under their names, the first of its options later.
C5_AppendOnly ==
    /\ \A i \in DOMAIN mutations :
          mutations[i].sent = Append(mutations[i].held, mutations[i].option)
    /\ \A r \in Runs : \A n \in DOMAIN schema :
          IsPrefix(hist[r].schemaAtStart[n].options, schema[n].options)

\* two options were appended to a property that held one
C5_Witness ==
    /\ Len(schema["Status"].options) = 3
    /\ \E i \in DOMAIN mutations :
          /\ mutations[i].status = 200
          /\ Len(mutations[i].held) = 2
          /\ Len(mutations[i].sent) = 3

\* C6: no mutation is sent for an option that the property holds under a name
\* equal ignoring case, and no property comes to hold two such names.
C6_CaseInsensitive ==
    /\ \A i \in DOMAIN mutations : \A o \in DOMAIN mutations[i].held :
          toLowerCase(mutations[i].held[o]) # toLowerCase(mutations[i].option)
    /\ \A n \in DOMAIN schema : \A i, j \in DOMAIN schema[n].options :
          toLowerCase(schema[n].options[i]) = toLowerCase(schema[n].options[j]) => i = j

\* a record asking for the type "bug" was written while "Type" held "Bug", and
\* no mutation of "Type" was sent
C6_Witness ==
    \E r \in Runs :
        /\ proc[r].pc = "comment"
        /\ proc[r].selects[5] = Str("bug")
        /\ proc[r].props["Type"] = "bug"
        /\ schema["Type"].options = <<"Bug">>
        /\ \A i \in DOMAIN mutations : mutations[i].property # "Type"

\* the identifiers of the issues of the feed, in feed order
FeedIds == [i \in DOMAIN tracker |-> tracker[i].identifier]

\* the number of pages of a feed of n records
PagesOf(n) == IF n = 0 THEN 1 ELSE (n + PageSize - 1) \div PageSize

\* C7: the first page request carries no cursor, every later one the end cursor
\* of the page before it, which signalled a further page; the records are
\* yielded once each in page order; and the reader stops after the first page
\* that signals no further page, with as many requests as the feed has pages.
C7_Pagination ==
    \A r \in Runs :
        LET req == hist[r].requests
        IN  /\ \A i \in DOMAIN req :
                  /\ req[i].after = (i - 1) * PageSize
                  /\ i > 1 => req[i - 1].status = 200 /\ req[i].after < Len(tracker)
            /\ Len(req) <= PagesOf(Len(tracker))
            /\ IsPrefix(hist[r].yielded, FeedIds)
            /\ Len(req) > 0 => Len(hist[r].yielded) <= Len(req) * PageSize
            /\ proc[r].pc = "done" =>
                  /\ Len(req) = PagesOf(Len(tracker))
                  /\ hist[r].yielded = FeedIds

\* a run ended after a feed of two pages
C7_Witness ==
    \E r \in Runs :
        /\ proc[r].pc = "done"
        /\ Len(tracker) = 2
        /\ Len(hist[r].requests) = PagesOf(2)
        /\ Last(hist[r].requests).after > 0
        /\ hist[r].yielded = FeedIds

\* the record of run r has been written: its last call was the refresh of
\* "Last Sync", answered with success
Written(r) ==
    /\ proc[r].pc = "iter"
    /\ hist[r].record.calls # <<>>
    /\ Last(hist[r].record.calls) = [op |-> "stamp", status |-> 200]

\* C8: a record whose writes were answered 429 and then with success is counted
\* once, as created or as updated; a create leaves one more page in the store,
\* an update as many as before.
C8_RetryOnce ==
    \A r \in Runs : (Written(r) /\ hist[r].record.throttled > 0) =>
        LET before == hist[r].record
        IN  /\ summary[r].created + summary[r].updated = before.created + before.updated + 1
            /\ summary[r].errors = before.errors
            /\ proc[r].action = "created" =>
                  /\ summary[r].created = before.created + 1
                  /\ Len(store) = before.pages + 1
                  /\ Len(QueryResults(proc[r].issue.identifier)) = 1
            /\ proc[r].action = "updated" =>
                  /\ summary[r].updated = before.updated + 1
                  /\ Len(store) = before.pages

\* a create was answered 429, then sent again and answered with success
C8_Witness ==
    \E r \in Runs :
        /\ Written(r)
        /\ proc[r].action = "created"
        /\ \E i \in DOMAIN hist[r].record.calls :
              /\ hist[r].record.calls[i] = [op |-> "create", status |-> 429]
              /\ hist[r].record.calls[i + 1] = [op |-> "create", status |-> 200]

\* C9 as stated: no record is counted as errored because a destination call of
\* its upsert was answered 429: the last call of an errored record, the one
\* that threw, was not answered 429.
C9_ThrottleNeverErrors ==
    \A r \in Runs :
        ( /\ proc[r].pc = "iter"
          /\ summary[r].errors > hist[r].record.errors
          /\ hist[r].record.calls # <<>> ) =>
            Last(hist[r].record.calls).status # 429

\* the record of run r was thrown to the driver's catch
Failed(r) ==
    /\ proc[r].pc = "iter"
    /\ hist[r].record.calls # <<>>
    /\ Last(hist[r].record.calls).status # 200

\* C10: a record whose destination call failed is counted in errors, once, with
\* a log line naming it, and in no other counter; the run ends only at the end
\* of the feed, at a failed page request or for missing configuration, and a
\* run that reached the end of the feed has visited every record.
C10_ErrorIsolation ==
    \A r \in Runs :
        /\ Failed(r) =>
              /\ summary[r].errors = hist[r].record.errors + 1
              /\ summary[r].created = hist[r].record.created
              /\ summary[r].updated = hist[r].record.updated
              /\ Last(summary[r].items) = [tag |-> "Error", id |-> proc[r].issue.identifier]
        /\ proc[r].pc = "fatal" =>
              \/ ~config
              \/ hist[r].requests # <<>> /\ Last(hist[r].requests).status # 200
        /\ (hist[r].requests # <<>> /\ \A i \in DOMAIN hist[r].requests :
                                           hist[r].requests[i].status = 200)
              => proc[r].pc # "fatal"
        /\ proc[r].pc = "done" =>
              /\ hist[r].yielded = FeedIds
              /\ summary[r].processed = Len(tracker)

\* a run that ended logged an error for its first record and wrote its second
C10_Witness ==
    \E r \in Runs :
        /\ proc[r].pc = "done"
        /\ Len(tracker) = 2
        /\ summary[r].errors = 1
        /\ summary[r].items[1].tag = "Error"
        /\ summary[r].items[2].tag = "Created"

\* a page request of run r was answered with a non-success status
FeedFailed(r) ==
    /\ hist[r].requests # <<>>
    /\ Last(hist[r].requests).status # 200

\* C11: once a page request was answered with a non-success status it stays the
\* last request of the run; the run makes no destination call after it, does
\* not emit its summary, and has exited with status 1.
C11_FeedFailureAborts ==
    \A r \in Runs : FeedFailed(r) =>
        /\ \A i \in 1..(Len(hist[r].requests) - 1) : hist[r].requests[i].status = 200
        /\ proc[r] = Exit1
        /\ hist[r].record.calls = <<>>
        /\ ~hist[r].emitted
        /\ hist[r].final = <<>>

\* the second page request of a run failed after the record of the first page
\* was written, and the next run has started
C11_Witness ==
    \E r \in Runs :
        /\ r < MaxRuns
        /\ FeedFailed(r)
        /\ Len(hist[r].requests) = 2
        /\ summary[r].created = 1
        /\ proc[r + 1].pc = "upsert"

\* C12: after a schema PATCH that succeeded the cache is empty until the schema
\* has been fetched again, and a cache that is set holds every option the run
\* has appended.
C12_CacheFresh ==
    \A r \in Runs :
        /\ proc[r].pc = "refresh" => ~proc[r].dbSchemaCache.set
        /\ proc[r].dbSchemaCache.set =>
              \A i \in DOMAIN mutations :
                  (mutations[i].run = r /\ mutations[i].status = 200) =>
                      \E o \in DOMAIN proc[r].dbSchemaCache.db[mutations[i].property].options :
                          proc[r].dbSchemaCache.db[mutations[i].property].options[o]
                              = mutations[i].option

\* the second record of a run reads a cache that holds the two options the
\* run appended for the first
C12_Witness ==
    \E r \in Runs :
        /\ proc[r].pc = "lookup"
        /\ summary[r].processed = 2
        /\ proc[r].dbSchemaCache.set
        /\ Cardinality({i \in DOMAIN mutations :
                           mutations[i].run = r /\ mutations[i].status = 200}) = 2

\* C13 as stated: when the create or patch of a record is sent, every select
\* value in the properties written names, ignoring case, an option that the
\* destination schema holds for its property.
C13_OptionsExistAtWrite ==
    \A r \in Runs : proc[r].pc = "write" =>
        \A k \in DOMAIN SelectNames :
            SelectNames[k] \in DOMAIN proc[r].props =>
                /\ SelectNames[k] \in DOMAIN schema
                /\ schema[SelectNames[k]].type \in {"select", "multi_select"}
                /\ \E o \in DOMAIN schema[SelectNames[k]].options :
                      toLowerCase(schema[SelectNames[k]].options[o])
                          = toLowerCase(proc[r].props[SelectNames[k]])

\* C14 as stated: with invocations that overlap, interleaved at every network
\* call, the store never holds two pages with the same "Linear Issue ID".
C14_OverlapNoDuplicates ==
    \A i \in DOMAIN store : \A j \in DOMAIN store :
        i # j => store[i].props["Linear Issue ID"] # store[j].props["Linear Issue ID"]

\* the mapped fields of a record and whether the mapper produced a value
MappedValue(p) ==
    [n \in {SelectNames[k] : k \in DOMAIN SelectNames} |->
        p.selects[CHOOSE k \in DOMAIN SelectNames : SelectNames[k] = n] # Null]
    @@ ("Due Date" :> (p.issue.dueDate # Null))
    @@ ("Description" :> (p.issue.description # Null))

\* C15 as stated: the properties sent with a create or patch hold a key for a
\* mapped field (Status, Priority, Due Date, Module, Sub-Area, Type, Cycle,
\* Description) exactly when the mapper produced a value for it, and no key
\* holds an empty value.
C15_AbsentOmitted ==
    \A r \in Runs : proc[r].pc = "write" =>
        \A n \in DOMAIN MappedValue(proc[r]) :
            /\ n \in DOMAIN proc[r].props <=> MappedValue(proc[r])[n]
            /\ n \in DOMAIN proc[r].props =>
                  IF n = "Description" THEN proc[r].props[n] # <<>>
                  ELSE proc[r].props[n] # ""

\* the first entry of a precedence list that occurs, ignoring case, among the
\* labels; the empty text when none does
ByPrecedence(labels, cands) ==
    LET occurs(c) == \E i \in DOMAIN labels : toLowerCase(labels[i]) = toLowerCase(c)
        found     == SelectSeq(cands, occurs)
    IN  IF found = <<>> THEN "" ELSE Head(found)

\* C16 as stated: the module, sub-area and type of a record are, ignoring case,
\* the first entry of the category's precedence list that occurs among its
\* labels, whatever the order of the labels; and the type is "Features" when
\* the label "Features" is present.
C16_ByPrecedence ==
    (calc.f = "mapExtras" /\ calc.done) =>
        /\ toLowerCase(calc.out.moduleVal)
              = toLowerCase(ByPrecedence(calc.arg, MODULE_LABELS))
        /\ toLowerCase(calc.out.subareaVal)
              = toLowerCase(ByPrecedence(calc.arg, SUBAREA_LABELS))
        /\ toLowerCase(calc.out.typeVal)
              = toLowerCase(ByPrecedence(calc.arg, TYPE_LABELS))
        /\ (\E i \in DOMAIN calc.arg : calc.arg[i] = "Features") =>
              calc.out.typeVal = "Features"

\* C18: a text of n > 0 characters is cut into ceil(n / 1900) chunks, all of
\* 1900 characters but the last, which has between 1 and 1900; the chunks in
\* order are the text; the empty text gives no chunk.
C18_Chunking ==
    (calc.f = "toRichTextArray" /\ calc.done) =>
        LET n == Len(calc.arg)
            c == calc.out
        IN  /\ n = 0 => c = <<>>
            /\ n > 0 =>
                  /\ Len(c) = (n + 1899) \div 1900
                  /\ \A i \in 1..(Len(c) - 1) : Len(c[i]) = 1900
                  /\ Len(c[Len(c)]) \in 1..1900
                  /\ \A j \in 1..n :
                        c[((j - 1) \div 1900) + 1][((j - 1) % 1900) + 1] = calc.arg[j]

\* a text of 5000 characters was cut into chunks of 1900, 1900 and 1200
C18_Witness ==
    /\ calc.f = "toRichTextArray" /\ calc.done
    /\ Len(calc.arg) = 5000
    /\ Len(calc.out) = 3
    /\ Len(calc.out[1]) = 1900 /\ Len(calc.out[2]) = 1900 /\ Len(calc.out[3]) = 1200

\* C17: the record ENG-1 with labels "Customer - Hapag Lloyd" and "Bug",
\* priority 2 and state "In Progress", for which the lookup found no page and
\* whose calls succeeded, is counted as created, and its page holds Priority
\* "High", Status "In Progress" and Type "Bug".
C17_Scenario ==
    \A r \in Runs :
        ( /\ Written(r)
          /\ proc[r].issue.identifier = "ENG-1"
          /\ proc[r].issue.labels = <<"Customer - Hapag Lloyd", "Bug">>
          /\ proc[r].issue.priority = Num(2)
          /\ proc[r].issue.state = Str("In Progress")
          /\ proc[r].existing = 0 ) =>
            /\ proc[r].action = "created"
            /\ summary[r].created = hist[r].record.created + 1
            /\ Last(summary[r].items) = [tag |-> "Created", id |-> "ENG-1"]
            /\ proc[r].pageId \in DOMAIN store
            /\ store[proc[r].pageId].props["Linear Issue ID"] = "ENG-1"
            /\ store[proc[r].pageId].props["Priority"] = "High"
            /\ store[proc[r].pageId].props["Status"] = "In Progress"
            /\ store[proc[r].pageId].props["Type"] = "Bug"

\* the record of the scenario was created in an empty store
C17_Witness ==
    /\ Written(1)
    /\ proc[1].issue = IssueA
    /\ proc[1].existing = 0
    /\ proc[1].action = "created"
    /\ Len(store) = 1
    /\ store[1].props["Priority"] = "High"

\* C19: a run exits with status 1 only for missing configuration or after a
\* failed page request; a run that reached the end of the feed has emitted its
\* summary and exits with status 0, however many of its records errored.
C19_ExitStatus ==
    \A r \in Runs :
        /\ proc[r].exitCode \in {-1, 0, 1}
        /\ proc[r].exitCode = 1 => ~config \/ FeedFailed(r)
        /\ ~config => proc[r].pc \in {"idle", "fatal"} /\ ~hist[r].emitted
        /\ proc[r].exitCode = 0 <=> proc[r].pc = "done"
        /\ proc[r].pc = "done" => hist[r].emitted
        /\ proc[r].pc = "fatal" => proc[r].exitCode = 1

\* a run with an errored record has emitted its summary and exited with 0
C19_Witness ==
    \E r \in Runs :
        /\ proc[r].pc = "done"
        /\ summary[r].errors > 0
        /\ hist[r].emitted
        /\ proc[r].exitCode = 0

\* the calls of the record in hand that write its properties
WriteCalls(r) ==
    {i \in DOMAIN hist[r].record.calls : hist[r].record.calls[i].op \in {"patch", "create"}}

\* C20: after a lookup that succeeded the properties are written by a patch of
\* the first page found when there is one and by a create when there is none,
\* never both; the comment and the "Last Sync" refresh are sent only after that
\* write succeeded, the comment first, and to the page patched or created.
C20_WriteStep ==
    \A r \in Runs :
        LET calls == hist[r].record.calls
            p     == proc[r]
        IN  /\ \A i \in WriteCalls(r) :
                  /\ calls[i].op = "patch" <=> p.existing # 0
                  /\ \E j \in 1..(i - 1) : calls[j] = [op |-> "query", status |-> 200]
                  /\ \A j \in 1..(i - 1) : j \in WriteCalls(r) => calls[j].status = 429
            /\ p.existing # 0 =>
                  /\ QueryResults(p.issue.identifier) # <<>>
                  /\ p.existing = Head(QueryResults(p.issue.identifier)).id
            /\ \A i \in DOMAIN calls :
                  /\ calls[i].op = "comment" =>
                        \E j \in WriteCalls(r) : j < i /\ calls[j].status = 200
                  /\ calls[i].op = "stamp" =>
                        \E j \in 1..(i - 1) : calls[j] = [op |-> "comment", status |-> 200]
            /\ p.pc \in {"comment", "stamp"} =>
                  /\ p.pageId = IF p.existing # 0 THEN p.existing
                                ELSE hist[r].record.pages + 1
                  /\ p.pageId \in DOMAIN store
                  /\ store[p.pageId].id = p.pageId
                  /\ store[p.pageId].props["Linear Issue ID"] = p.issue.identifier
                  /\ Len(store) = hist[r].record.pages + (IF p.existing # 0 THEN 0 ELSE 1)
            /\ p.pc = "stamp" => store[p.pageId].notes > 0

\* a page found by the lookup was patched, commented and is to be refreshed
C20_Witness ==
    \E r \in Runs :
        /\ proc[r].pc = "stamp"
        /\ proc[r].existing # 0
        /\ proc[r].pageId = proc[r].existing
        /\ \E i \in WriteCalls(r) : hist[r].record.calls[i] = [op |-> "patch", status |-> 200]

\* the records of run r that have reached a terminal state
Terminal(r) ==
    summary[r].created + summary[r].updated + summary[r].skippedNoLabel + summary[r].errors

\* run r holds a record that upsert has not finished
InUpsert(r) ==
    proc[r].pc \in {"upsert", "ensure", "refresh", "title", "lookup", "write", "comment", "stamp"}

\* C21: the counters partition the processed records.  Whenever no record is
\* in hand (between two records, while a page is requested, and at the end of
\* a run, aborted or not) processed = created + updated + skipped + errors and
\* the log has one line per processed record; while a record is in hand it is
\* the only one counted as processed that has neither a terminal state nor a
\* log line.
C21_CountersPartition ==
    \A r \in Runs :
        /\ Len(hist[r].yielded) = summary[r].processed
        /\ IF InUpsert(r)
           THEN /\ summary[r].processed = Terminal(r) + 1
                /\ Len(summary[r].items) = summary[r].processed - 1
           ELSE /\ summary[r].processed = Terminal(r)
                /\ Len(summary[r].items) = summary[r].processed

\* a run that ended with its summary after one record was skipped and one
\* errored
C21_Witness ==
    \E r \in Runs :
        /\ hist[r].emitted
        /\ summary[r].processed = 2
        /\ summary[r].skippedNoLabel = 1
        /\ summary[r].errors = 1

\* the last call of the record in hand of run r was op, answered with an error
\* other than a rate limit
LastCallFailed(r, op) ==
    /\ hist[r].record.calls # <<>>
    /\ Last(hist[r].record.calls) = [op |-> op, status |-> 500]

\* the record in hand of run r is the last one logged, as an error
CountedAsError(r) ==
    /\ summary[r].errors = hist[r].record.errors + 1
    /\ summary[r].created = hist[r].record.created
    /\ summary[r].updated = hist[r].record.updated
    /\ summary[r].items # <<>>
    /\ Last(summary[r].items) = [tag |-> "Error", id |-> proc[r].issue.identifier]

\* C22: when the comment append fails with an error other than a rate limit
\* after the create or patch succeeded, the record is counted as errored and
\* not as created or updated, the page written by the write step is still in
\* the store (one page more than before the record if it was created), no
\* "Last Sync" refresh was sent for it, and the run goes on with the feed.
C22_CommentFailure ==
    \A r \in Runs :
        LastCallFailed(r, "comment") =>
            /\ proc[r].pc \in {"iter", "fetch"}
            /\ CountedAsError(r)
            /\ QueryResults(proc[r].issue.identifier) # <<>>
            /\ \E i \in DOMAIN store : store[i].id = proc[r].pageId
            /\ proc[r].action = "created" => Len(store) = hist[r].record.pages + 1
            /\ proc[r].action = "updated" => Len(store) = hist[r].record.pages
            /\ \A i \in DOMAIN hist[r].record.calls : hist[r].record.calls[i].op # "stamp"

\* the comment of a record whose page was just created has failed
C22_Witness ==
    \E r \in Runs :
        /\ LastCallFailed(r, "comment")
        /\ proc[r].action = "created"
        /\ proc[r].pc = "iter"

\* the calls that upsert makes after the ensureSelectOption calls
AfterEnsure == {"query", "create", "patch", "comment", "stamp"}

\* C23: when the schema PATCH that adds an option gets a response other than
\* success, the schema cache is still set and holds what it held when the
\* PATCH was built (the options sent are the cached ones plus the new one),
\* the schema itself is unchanged, no query, create, patch, comment or
\* "Last Sync" refresh was sent for the record and no page was added, the
\* record is counted as errored, and the run goes on with the feed.
C23_SchemaPatchFailure ==
    \A r \in Runs :
        (/\ hist[r].record.calls # <<>>
         /\ Last(hist[r].record.calls).op = "updateDatabase"
         /\ Last(hist[r].record.calls).status # 200) =>
            LET m == Last(mutations)
            IN  /\ m.run = r /\ m.status # 200
                /\ proc[r].dbSchemaCache.set
                /\ proc[r].dbSchemaCache.db = schema
                /\ m.sent = nextOptions(proc[r].dbSchemaCache.db[m.property].options, m.option)
                /\ schema[m.property].options = m.held
                /\ \A i \in DOMAIN hist[r].record.calls :
                       hist[r].record.calls[i].op \notin AfterEnsure
                /\ Len(store) = hist[r].record.pages
                /\ CountedAsError(r)
                /\ proc[r].pc \in {"iter", "fetch"}

\* a schema PATCH was answered with an error and the record's run has a
\* further record to go on with
C23_Witness ==
    \E r \in Runs :
        /\ LastCallFailed(r, "updateDatabase")
        /\ proc[r].pc = "iter"
        /\ proc[r].edges # <<>> \/ proc[r].hasNextPage

\* the number of calls of the record in hand of run r that satisfy test
CallCount(r, test(_)) == Len(SelectSeq(hist[r].record.calls, test))

\* C24: ensureSelectOption sends no schema PATCH for an empty or absent option
\* name, for a property that the schema lacks or for a property that is
\* neither a select nor a multi_select: every PATCH sent names a non-empty
\* option of a select or multi_select property of the schema, the schema
\* differs from the one at the start only in the options of such properties,
\* and within a record the schema is fetched at most once plus once for every
\* PATCH that succeeded.
C24_NoOpCases ==
    /\ \A i \in DOMAIN mutations :
           /\ mutations[i].option # ""
           /\ mutations[i].property \in DOMAIN Schema0
           /\ Schema0[mutations[i].property].type \in {"select", "multi_select"}
    /\ DOMAIN schema = DOMAIN Schema0
    /\ \A n \in DOMAIN schema :
           /\ schema[n].type = Schema0[n].type
           /\ schema[n].type \notin {"select", "multi_select"} => schema[n] = Schema0[n]
    /\ \A r \in Runs :
           LET read(c)    == c.op = "getDatabase"
               patched(c) == c.op = "updateDatabase" /\ c.status = 200
           IN  /\ CallCount(r, read) <= 1 + CallCount(r, patched)
               /\ proc[r].pc \in {"ensure", "title", "lookup", "write", "comment", "stamp"}
                      => proc[r].dbSchemaCache.set
                            \/ (CallCount(r, read) = 0 /\ proc[r].pc \in {"ensure", "title"})

\* the ensureSelectOption calls of a record are over: the record had a value
\* for "Module", which is a text property, a value for "Sub-Area", which the
\* schema lacks, and no cycle; the schema was read for them and nothing was
\* sent for these three properties
C24_Witness ==
    \E r \in Runs :
        /\ proc[r].pc = "lookup"
        /\ proc[r].selects[3] # Null
        /\ proc[r].selects[4] # Null
        /\ proc[r].selects[6] = Null
        /\ \E i \in DOMAIN hist[r].record.calls :
               hist[r].record.calls[i] = [op |-> "getDatabase", status |-> 200]
        /\ \A i \in DOMAIN mutations : mutations[i].property \notin {"Module", "Sub-Area", "Cycle"}

\* C25: a run works on one thing at a time.  The records are taken in the
\* order of the feed; while upsert works on a record, every record yielded
\* before it has reached a terminal state; while a page request is out, no
\* record is in hand, every record yielded has reached a terminal state and
\* every record of the pages received so far has been yielded; and the calls
\* logged for the record in hand are calls of one upsert: nothing follows a
\* call that failed, and nothing follows the "Last Sync" refresh that
\* succeeded.
C25_Sequential ==
    \A r \in Runs :
        LET calls == hist[r].record.calls
        IN  /\ Len(hist[r].yielded) <= Len(tracker)
            /\ \A i \in DOMAIN hist[r].yielded : hist[r].yielded[i] = tracker[i].identifier
            /\ InUpsert(r) =>
                   /\ Terminal(r) = Len(hist[r].yielded) - 1
                   /\ proc[r].issue = tracker[Len(hist[r].yielded)]
            /\ proc[r].pc = "fetch" =>
                   /\ Terminal(r) = Len(hist[r].yielded)
                   /\ Len(hist[r].yielded) = proc[r].after
                   /\ proc[r].edges = <<>>
                   /\ proc[r].after = Len(hist[r].requests) * PageSize
            /\ \A i \in DOMAIN calls :
                   i < Len(calls) =>
                       /\ calls[i].status \in {200, 429}
                       /\ calls[i].status = 429 => calls[i].op \in {"create", "patch", "comment", "stamp"}
                       /\ calls[i] # [op |-> "stamp", status |-> 200]

\* the request for the second page is out, after the one record of the first
\* page was written
C25_Witness ==
    \E r \in Runs :
        /\ proc[r].pc = "fetch"
        /\ Len(hist[r].requests) = 1
        /\ summary[r].created = 1
        /\ Len(hist[r].yielded) = 1

\* the calls that upsert sends through notionWrite
WriteOps == {"create", "patch", "comment", "stamp"}

\* run r has ended with its summary, every record of the feed in a terminal
\* state
RunEnded(r) ==
    /\ proc[r].pc = "done"
    /\ hist[r].emitted
    /\ summary[r].processed = Len(tracker)
    /\ Terminal(r) = Len(tracker)

\* C26 as stated: when every write is at some time answered with a response
\* other than 429, a run that has started ends with its summary, every record
\* of the feed in a terminal state.
C26_AlwaysTerminates ==
    \A r \in Runs : (proc[r].pc = "fetch") ~> RunEnded(r)

\* C26: a write answered 429 is sent again after the sleep, whatever the
\* number of 429 responses before it.  While the write waits to be sent again
\* its record is in no terminal state, counted in no counter but processed,
\* and the summary is not emitted; a record that has reached a terminal state
\* did not reach it at a 429 to a write; no record is dropped, so between two
\* records the counters add up.  When every write is at some time answered
\* with a response other than 429, a run that has started ends: with its
\* summary and every record of the feed in a terminal state, or at a page
\* request that failed.
C26_RetryUntilAnswered ==
    /\ [](\A r \in Runs :
            LET calls == hist[r].record.calls
            IN  /\ proc[r].pc = "backoff" =>
                       /\ proc[r].resume \in {"write", "comment", "stamp"}
                       /\ calls # <<>> /\ Last(calls).status = 429
                       /\ Last(calls).op \in WriteOps
                       /\ summary[r].processed = Terminal(r) + 1
                       /\ summary[r].errors = hist[r].record.errors
                       /\ ~hist[r].emitted
                /\ (proc[r].pc \in {"iter", "fetch"} /\ calls # <<>>
                                                      /\ Last(calls).status = 429)
                       => Last(calls).op \notin WriteOps
                /\ proc[r].pc \in {"iter", "fetch", "done", "fatal"}
                       => summary[r].processed = Terminal(r))
    /\ \A r \in Runs : (proc[r].pc = "fetch") ~> (RunEnded(r) \/ FeedFailed(r))

\* a record was written after its create, its comment and its "Last Sync"
\* refresh had each been answered 429 and sent again
C26_Witness ==
    \E r \in Runs :
        /\ Written(r)
        /\ \A op \in {"create", "comment", "stamp"} :
               \E i \in DOMAIN hist[r].record.calls :
                   hist[r].record.calls[i] = [op |-> op, status |-> 429]

=============================================================================
